---- MODULE Spec2Model ----
(***************************************************************************)
(* Model of the aligned_layer bootstrap code:                              *)
(*   - CredibleAlignedLayerDeployer.run(), the forge script that deploys   *)
(*     the AVS contracts (contracts/script/AlignedLayerDeployer.s.sol);    *)
(*   - VerifySp1Proof, the cgo wrapper around verify_sp1_proof_ffi.        *)
(* Addresses are natural numbers, 0 being address(0).                      *)
(***************************************************************************)
EXTENDS Integers, Sequences, FiniteSets, TLC

VARIABLES
    manifest,       \* addresses run() reads from the two input json files
    msgSender,      \* msg.sender of run(), the broadcasting account
    nonce,          \* next nonce of the broadcasting account
    pc,             \* index in Program of the next transaction of run()
    status,         \* "running", "done" or "aborted"
    failedStep,     \* label of the transaction that reverted, "" if none
    store,          \* the script's storage variables (and emptyContract)
    chain,          \* deployed contracts: address -> [kind, refs]
    proxy,          \* proxies: address -> [impl, admin, initialized, initRefs]
    whitelist,      \* strategies whitelisted for deposit in the strategy manager
    outputWritten,  \* writeOutput has written the output json file
    outputJson,     \* the "addresses" object of the output file: key -> address
    trace,          \* the transactions executed so far, in order
    gatePc,         \* proof gate: "idle", "returned" or "fault"
    gateCalls,      \* number of VerifySp1Proof calls made so far
    proofBuffer,    \* buffer argument of the last VerifySp1Proof call
    proofLen,       \* proofLen argument of the last VerifySp1Proof call
    gateResult,     \* value returned by the last VerifySp1Proof call
    ffiLog,         \* invocations of verify_sp1_proof_ffi made by the last call
    ffiMemo,        \* verdicts the external verifier has given: <<buf, len>> -> BOOLEAN
    calls,          \* concurrent callers of the gate: caller -> its call in flight
    bootPc,         \* NewConfig: the statement it is at
    bootOutcome,    \* NewConfig: "running", "returned", "error" or "panic"
    bootRun,        \* number of the process start: 1 or 2
    bootEnv,        \* what the files, the network and the libraries answered
    secret,         \* value of the ecdsa-private-key flag, a sequence of characters
    locals,         \* NewConfig's local variables
    config,         \* the Config NewConfig assembles
    output,         \* what NewConfig printed, logged or panicked with, in order
    steps,          \* the statements NewConfig executed, in order
    result,         \* what NewConfig returned: (*Config, error)
    prevRun         \* secret, results and output of the first process start

deployVars == <<manifest, msgSender, nonce, pc, status, failedStep, store, chain,
                proxy, whitelist, outputWritten, outputJson, trace>>
gateVars == <<gatePc, gateCalls, proofBuffer, proofLen, gateResult, ffiLog, ffiMemo, calls>>
bootVars == <<bootPc, bootOutcome, bootRun, bootEnv, secret, locals, config, output,
              steps, result, prevRun>>
vars == <<deployVars, gateVars, bootVars>>

\* Largest nonce the broadcasting account may have when run() starts.
MaxStartNonce == 1

ZeroAddr == 0

\* Externally owned accounts (anvil's default accounts).
AnvilAccount(i) == 20 + i

AGGREGATOR_ADDR == AnvilAccount(9)
TASK_GENERATOR_ADDR == AnvilAccount(9)

\* The addresses run() reads with stdJson.readAddress from
\* eigenlayer_deployment_output and shared_avs_contracts_deployment_output.
ReadManifest(base) ==
    [strategyManager            |-> base + 1,
     delegationManager          |-> base + 2,
     slasher                    |-> base + 3,
     eigenLayerProxyAdmin       |-> base + 4,
     eigenLayerPauserReg        |-> base + 5,
     pubkeyCompendium           |-> base + 6,
     baseStrategyImplementation |-> base + 7]

ManifestInputs == {ReadManifest(0), ReadManifest(10)}

ManifestAddrs == {manifest[k] : k \in DOMAIN manifest}

\* Address of a contract created by account `sender` with nonce `n`.
CreateAddress(sender, n) == 100 + 100 * (sender - AnvilAccount(0)) + n

\* The script's storage variables, plus the local emptyContract.
StoreVars ==
    {"erc20Mock", "erc20MockStrategy",
     "credibleAlignedLayerProxyAdmin", "credibleAlignedLayerPauserReg",
     "emptyContract",
     "registryCoordinator", "registryCoordinatorImplementation",
     "blsPubkeyRegistry", "blsPubkeyRegistryImplementation",
     "indexRegistry", "indexRegistryImplementation",
     "stakeRegistry", "stakeRegistryImplementation",
     "credibleAlignedLayerServiceManager",
     "credibleAlignedLayerServiceManagerImplementation",
     "credibleAlignedLayerTaskManager",
     "credibleAlignedLayerTaskManagerImplementation"}

(***************************************************************************)
(* Expressions of the script that denote an address.                      *)
(***************************************************************************)
V(name) == <<"var", name>>       \* a storage variable of the script
P(name) == <<"param", name>>     \* a value read from the input manifests
E(name) == <<"eoa", name>>       \* msg.sender or a hard-coded account

Eval(o) ==
    CASE o[1] = "var"   -> store[o[2]]
      [] o[1] = "param" -> manifest[o[2]]
      [] o[1] = "eoa"   -> IF o[2] = "msg.sender" THEN msgSender ELSE AGGREGATOR_ADDR

\* The contract addresses among the operands `os` (accounts are no contracts).
Refs(os) == {Eval(os[i]) : i \in {j \in DOMAIN os : os[j][1] \in {"var", "param"}}}

NoData == [selector |-> "", args |-> <<>>]
Calldata(sel, args) == [selector |-> sel, args |-> args]
NoOperand == <<"none", "">>

\* x = new K(ctor...)
New(var, kind, ctor) ==
    [op |-> "new", label |-> var, var |-> var, kind |-> kind, args |-> ctor,
     logic |-> NoOperand, admin |-> NoOperand, target |-> NoOperand,
     impl |-> NoOperand, data |-> NoData]

\* x = new TransparentUpgradeableProxy(logic, admin, data)
NewProxy(var, logic, admin, data) ==
    [op |-> "newProxy", label |-> var, var |-> var,
     kind |-> "TransparentUpgradeableProxy", args |-> <<>>,
     logic |-> logic, admin |-> admin, target |-> NoOperand,
     impl |-> NoOperand, data |-> data]

\* credibleAlignedLayerProxyAdmin.upgrade(proxy, impl)
AdminUpgrade(proxyVar, implVar) ==
    [op |-> "upgrade", label |-> proxyVar, var |-> proxyVar, kind |-> "", args |-> <<>>,
     logic |-> NoOperand, admin |-> V("credibleAlignedLayerProxyAdmin"),
     target |-> V(proxyVar), impl |-> V(implVar), data |-> NoData]

\* credibleAlignedLayerProxyAdmin.upgradeAndCall(proxy, impl, data)
AdminUpgradeAndCall(proxyVar, implVar, data) ==
    [op |-> "upgradeAndCall", label |-> proxyVar, var |-> proxyVar, kind |-> "",
     args |-> <<>>, logic |-> NoOperand, admin |-> V("credibleAlignedLayerProxyAdmin"),
     target |-> V(proxyVar), impl |-> V(implVar), data |-> data]

\* strategyManager.addStrategiesToDepositWhitelist(strats)
ExternalCall(fn, target, args) ==
    [op |-> "call", label |-> fn, var |-> "", kind |-> "", args |-> args,
     logic |-> NoOperand, admin |-> NoOperand, target |-> target,
     impl |-> NoOperand, data |-> NoData]

(***************************************************************************)
(* The transactions of run(), one definition per statement.               *)
(***************************************************************************)
\* _deployErc20AndStrategyAndWhitelistStrategy
Step_erc20Mock == New("erc20Mock", "ERC20Mock", <<>>)

\* Mutant: the strategy proxy is deployed without its initializer calldata.
Step_erc20MockStrategy_NoInitializer ==
    NewProxy("erc20MockStrategy", P("baseStrategyImplementation"),
             P("eigenLayerProxyAdmin"), NoData)

Step_erc20MockStrategy ==
    NewProxy("erc20MockStrategy", P("baseStrategyImplementation"),
             P("eigenLayerProxyAdmin"),
             Calldata("StrategyBaseTVLLimits.initialize",
                      <<V("erc20Mock"), P("eigenLayerPauserReg")>>))

Step_addStrategiesToDepositWhitelist ==
    ExternalCall("addStrategiesToDepositWhitelist", P("strategyManager"),
                 <<V("erc20MockStrategy")>>)

\* _deployCredibleAlignedLayerContracts
Step_credibleAlignedLayerProxyAdmin ==
    New("credibleAlignedLayerProxyAdmin", "ProxyAdmin", <<>>)

Step_credibleAlignedLayerPauserReg ==
    New("credibleAlignedLayerPauserReg", "PauserRegistry",
        <<E("msg.sender"), E("msg.sender"), E("msg.sender")>>)

Step_emptyContract == New("emptyContract", "EmptyContract", <<>>)

\* Mutant: the proxy shell is deployed on a real implementation and initialized.
EmptyProxy_Initialized(var) ==
    NewProxy(var, P("baseStrategyImplementation"), V("credibleAlignedLayerProxyAdmin"),
             Calldata("initialize", <<V("credibleAlignedLayerPauserReg")>>))

EmptyProxy(var) ==
    NewProxy(var, V("emptyContract"), V("credibleAlignedLayerProxyAdmin"), NoData)

\* Mutant: the service manager proxy is bound to EigenLayer's proxy admin.
Step_credibleAlignedLayerServiceManager_EigenLayerAdmin ==
    NewProxy("credibleAlignedLayerServiceManager", V("emptyContract"),
             P("eigenLayerProxyAdmin"), NoData)

Step_credibleAlignedLayerServiceManager == EmptyProxy("credibleAlignedLayerServiceManager")

Step_credibleAlignedLayerTaskManager == EmptyProxy("credibleAlignedLayerTaskManager")

Step_registryCoordinator == EmptyProxy("registryCoordinator")

Step_blsPubkeyRegistry == EmptyProxy("blsPubkeyRegistry")

Step_indexRegistry == EmptyProxy("indexRegistry")

Step_stakeRegistry == EmptyProxy("stakeRegistry")

Step_stakeRegistryImplementation ==
    New("stakeRegistryImplementation", "StakeRegistry",
        <<V("registryCoordinator"), P("strategyManager"),
          V("credibleAlignedLayerServiceManager")>>)

Step_upgradeStakeRegistry ==
    AdminUpgradeAndCall("stakeRegistry", "stakeRegistryImplementation",
        Calldata("StakeRegistry.initialize", <<V("erc20MockStrategy")>>))

Step_registryCoordinatorImplementation ==
    New("registryCoordinatorImplementation", "BLSRegistryCoordinatorWithIndices",
        <<P("slasher"), V("credibleAlignedLayerServiceManager"), V("stakeRegistry"),
          V("blsPubkeyRegistry"), V("indexRegistry")>>)

Step_upgradeRegistryCoordinator ==
    AdminUpgradeAndCall("registryCoordinator", "registryCoordinatorImplementation",
        Calldata("BLSRegistryCoordinatorWithIndices.initialize",
                 <<E("msg.sender"), E("msg.sender"),
                   V("credibleAlignedLayerPauserReg")>>))

Step_blsPubkeyRegistryImplementation ==
    New("blsPubkeyRegistryImplementation", "BLSPubkeyRegistry",
        <<V("registryCoordinator"), P("pubkeyCompendium")>>)

\* Mutant: the upgrade names the stake registry proxy, already final.
Step_upgradeBlsPubkeyRegistry_StakeRegistryProxy ==
    AdminUpgrade("stakeRegistry", "blsPubkeyRegistryImplementation")

Step_upgradeBlsPubkeyRegistry ==
    AdminUpgrade("blsPubkeyRegistry", "blsPubkeyRegistryImplementation")

Step_indexRegistryImplementation ==
    New("indexRegistryImplementation", "IndexRegistry", <<V("registryCoordinator")>>)

\* Mutant: the index registry proxy is given the BLS pubkey registry's
\* implementation.
Step_upgradeIndexRegistry_BlsImplementation ==
    AdminUpgrade("indexRegistry", "blsPubkeyRegistryImplementation")

Step_upgradeIndexRegistry ==
    AdminUpgrade("indexRegistry", "indexRegistryImplementation")

Step_credibleAlignedLayerServiceManagerImplementation ==
    New("credibleAlignedLayerServiceManagerImplementation", "AlignedLayerServiceManager",
        <<V("registryCoordinator"), P("slasher"),
          V("credibleAlignedLayerTaskManager")>>)

\* Mutant: the service manager proxy is repointed with upgrade, without the call.
Step_upgradeServiceManager_UpgradeOnly ==
    AdminUpgrade("credibleAlignedLayerServiceManager",
                 "credibleAlignedLayerServiceManagerImplementation")

Step_upgradeServiceManager ==
    AdminUpgradeAndCall("credibleAlignedLayerServiceManager",
        "credibleAlignedLayerServiceManagerImplementation",
        Calldata("AlignedLayerServiceManager.initialize",
                 <<V("credibleAlignedLayerPauserReg"), E("msg.sender")>>))

Step_credibleAlignedLayerTaskManagerImplementation ==
    New("credibleAlignedLayerTaskManagerImplementation", "AlignedLayerTaskManager",
        <<V("registryCoordinator")>>)

Step_upgradeTaskManager ==
    AdminUpgradeAndCall("credibleAlignedLayerTaskManager",
        "credibleAlignedLayerTaskManagerImplementation",
        Calldata("AlignedLayerTaskManager.initialize",
                 <<V("credibleAlignedLayerPauserReg"), E("msg.sender"),
                   E("AGGREGATOR_ADDR"), E("TASK_GENERATOR_ADDR")>>))

\* Mutant: the strategy is whitelisted before the token and the strategy exist.
deployErc20AndStrategyAndWhitelistStrategy_WhitelistFirst ==
    << Step_addStrategiesToDepositWhitelist, Step_erc20Mock, Step_erc20MockStrategy >>

deployErc20AndStrategyAndWhitelistStrategy ==
    << Step_erc20Mock, Step_erc20MockStrategy, Step_addStrategiesToDepositWhitelist >>

\* deploy proxy admin, pauser registry and the empty contract
DeployAdminContracts ==
    << Step_credibleAlignedLayerProxyAdmin, Step_credibleAlignedLayerPauserReg,
       Step_emptyContract >>

\* "First, deploy upgradeable proxy contracts that will point to the implementations"
DeployProxies ==
    << Step_credibleAlignedLayerServiceManager, Step_credibleAlignedLayerTaskManager,
       Step_registryCoordinator, Step_blsPubkeyRegistry, Step_indexRegistry,
       Step_stakeRegistry >>

\* "Second, deploy the implementation contracts, using the proxy contracts as
\* inputs", each followed by the upgrade of its proxy.
\* Mutant: the stake registry proxy is upgraded before its implementation exists.
FinalizeStakeRegistry_UpgradeFirst ==
    << Step_upgradeStakeRegistry, Step_stakeRegistryImplementation >>

FinalizeStakeRegistry ==
    << Step_stakeRegistryImplementation, Step_upgradeStakeRegistry >>

\* Mutant: the registry coordinator proxy is deployed again before its
\* implementation.
FinalizeRegistryCoordinator_RedeployProxy ==
    << Step_registryCoordinator, Step_registryCoordinatorImplementation,
       Step_upgradeRegistryCoordinator >>

FinalizeRegistryCoordinator ==
    << Step_registryCoordinatorImplementation, Step_upgradeRegistryCoordinator >>

FinalizeBlsPubkeyRegistry ==
    << Step_blsPubkeyRegistryImplementation, Step_upgradeBlsPubkeyRegistry >>

FinalizeIndexRegistry ==
    << Step_indexRegistryImplementation, Step_upgradeIndexRegistry >>

FinalizeServiceManager ==
    << Step_credibleAlignedLayerServiceManagerImplementation, Step_upgradeServiceManager >>

FinalizeTaskManager ==
    << Step_credibleAlignedLayerTaskManagerImplementation, Step_upgradeTaskManager >>

\* Mutant: the stake registry implementation is deployed before the proxies.
deployCredibleAlignedLayerContracts_ImplementationFirst ==
    DeployAdminContracts \o << Step_stakeRegistryImplementation >> \o DeployProxies
        \o << Step_upgradeStakeRegistry >>
        \o FinalizeRegistryCoordinator \o FinalizeBlsPubkeyRegistry
        \o FinalizeIndexRegistry \o FinalizeServiceManager \o FinalizeTaskManager

deployCredibleAlignedLayerContracts ==
    DeployAdminContracts \o DeployProxies \o FinalizeStakeRegistry
        \o FinalizeRegistryCoordinator \o FinalizeBlsPubkeyRegistry
        \o FinalizeIndexRegistry \o FinalizeServiceManager \o FinalizeTaskManager

\* Mutant: run() calls its two functions in the other order.
Program_ContractsFirst ==
    deployCredibleAlignedLayerContracts \o deployErc20AndStrategyAndWhitelistStrategy

\* The transactions of run() between vm.startBroadcast() and the json output,
\* in the order the script sends them.
Program ==
    deployErc20AndStrategyAndWhitelistStrategy \o deployCredibleAlignedLayerContracts

\* The six upgradeable components (the variables holding their proxies) and the
\* variable holding each one's implementation.
Components ==
    {"credibleAlignedLayerServiceManager", "credibleAlignedLayerTaskManager",
     "registryCoordinator", "blsPubkeyRegistry", "indexRegistry", "stakeRegistry"}

ImplementationOf(c) == c \o "Implementation"

(***************************************************************************)
(* Execution of run(): one action per kind of transaction.                *)
(***************************************************************************)
Running == status = "running" /\ pc \in DOMAIN Program

\* Every contract address the transaction `s` names.
StepRefs(s) ==
    Refs(s.args) \cup Refs(<<s.logic, s.admin, s.target, s.impl>>) \cup Refs(s.data.args)

Executed(s, created) ==
    [op       |-> s.op,
     label    |-> s.label,
     created  |-> created,
     target   |-> IF s.target = NoOperand THEN ZeroAddr ELSE Eval(s.target),
     impl     |-> IF s.op = "newProxy" THEN Eval(s.logic)
                  ELSE IF s.impl = NoOperand THEN ZeroAddr ELSE Eval(s.impl),
     admin    |-> IF s.admin = NoOperand THEN ZeroAddr ELSE Eval(s.admin),
     refs     |-> StepRefs(s),
     hasInit  |-> s.data # NoData,
     initRefs |-> Refs(s.data.args)]

\* A transaction was mined: the account's nonce and the script move on.
Advance(s, created) ==
    /\ nonce' = nonce + 1
    /\ pc' = pc + 1
    /\ trace' = Append(trace, Executed(s, created))
    /\ UNCHANGED <<manifest, msgSender, status, failedStep, outputWritten, outputJson>>

\* Mutant: the revert is swallowed and run() goes on with the next statement.
Abort_Continue(s) ==
    /\ failedStep' = s.label
    /\ pc' = pc + 1
    /\ UNCHANGED <<manifest, msgSender, nonce, status, store, chain, proxy, whitelist,
                   outputWritten, outputJson, trace>>

\* The call reverted: run() stops there, what was mined before stays mined.
Abort(s) ==
    /\ status' = "aborted"
    /\ failedStep' = s.label
    /\ UNCHANGED <<manifest, msgSender, nonce, pc, store, chain, proxy, whitelist,
                   outputWritten, outputJson, trace>>

\* x = new K(args)
DeployContract ==
    /\ Running
    /\ Program[pc].op = "new"
    /\ LET s == Program[pc]
           a == CreateAddress(msgSender, nonce)
       IN  /\ chain' = chain @@ (a :> [kind |-> s.kind, refs |-> Refs(s.args)])
           /\ store' = [store EXCEPT ![s.var] = a]
           /\ Advance(s, a)
    /\ UNCHANGED <<proxy, whitelist, gateVars, bootVars>>

\* x = new TransparentUpgradeableProxy(logic, admin, data): the constructor sets
\* the implementation and the admin and, when data is not empty, calls the
\* implementation's initializer.
DeployProxy ==
    /\ Running
    /\ Program[pc].op = "newProxy"
    /\ LET s == Program[pc]
           a == CreateAddress(msgSender, nonce)
       IN  /\ chain' = chain @@ (a :> [kind |-> s.kind,
                                       refs |-> Refs(<<s.logic, s.admin>>)])
           /\ proxy' = proxy @@ (a :> [impl        |-> Eval(s.logic),
                                       admin       |-> Eval(s.admin),
                                       initialized |-> s.data # NoData,
                                       initRefs    |-> Refs(s.data.args)])
           /\ store' = [store EXCEPT ![s.var] = a]
           /\ Advance(s, a)
    /\ UNCHANGED <<whitelist, gateVars, bootVars>>

\* The ProxyAdmin named by `s` has code and is the admin of the target proxy.
Callable(s) ==
    /\ Eval(s.admin) \in DOMAIN chain
    /\ Eval(s.target) \in DOMAIN proxy
    /\ proxy[Eval(s.target)].admin = Eval(s.admin)

\* credibleAlignedLayerProxyAdmin.upgrade(proxy, implementation)
Upgrade ==
    /\ Running
    /\ Program[pc].op = "upgrade"
    /\ LET s == Program[pc]
       IN  IF Callable(s)
           THEN /\ proxy' = [proxy EXCEPT ![Eval(s.target)].impl = Eval(s.impl)]
                /\ Advance(s, ZeroAddr)
                /\ UNCHANGED <<store, chain, whitelist>>
           ELSE Abort(s)
    /\ UNCHANGED <<gateVars, bootVars>>

\* credibleAlignedLayerProxyAdmin.upgradeAndCall(proxy, implementation, data)
UpgradeAndCall ==
    /\ Running
    /\ Program[pc].op = "upgradeAndCall"
    /\ LET s == Program[pc]
       IN  IF Callable(s)
           THEN /\ proxy' = [proxy EXCEPT ![Eval(s.target)] =
                                [@ EXCEPT !.impl = Eval(s.impl),
                                          !.initialized = TRUE,
                                          !.initRefs = Refs(s.data.args)]]
                /\ Advance(s, ZeroAddr)
                /\ UNCHANGED <<store, chain, whitelist>>
           ELSE Abort(s)
    /\ UNCHANGED <<gateVars, bootVars>>

\* strategyManager.addStrategiesToDepositWhitelist(strats)
AddStrategiesToDepositWhitelist ==
    /\ Running
    /\ Program[pc].op = "call"
    /\ LET s == Program[pc]
       IN  /\ whitelist' = whitelist \cup Refs(s.args)
           /\ Advance(s, ZeroAddr)
    /\ UNCHANGED <<store, chain, proxy, gateVars, bootVars>>

\* Any transaction of the broadcast may revert; the script has no try/catch.
TxRevert ==
    /\ Running
    /\ Abort(Program[pc])
    /\ UNCHANGED <<gateVars, bootVars>>

\* Mutant: the service manager key is given the implementation's address.
SerializedAddresses_ImplementationForProxy ==
    [erc20Mock |-> store["erc20Mock"],
     erc20MockStrategy |-> store["erc20MockStrategy"],
     alignedLayerServiceManager |->
         store["credibleAlignedLayerServiceManagerImplementation"],
     alignedLayerServiceManagerImplementation |->
         store["credibleAlignedLayerServiceManagerImplementation"],
     alignedLayerTaskManager |-> store["credibleAlignedLayerTaskManager"],
     alignedLayerTaskManagerImplementation |->
         store["credibleAlignedLayerTaskManagerImplementation"],
     registryCoordinator |-> store["registryCoordinator"],
     registryCoordinatorImplementation |-> store["registryCoordinatorImplementation"]]

\* The keys and values run() serializes under "addresses".
SerializedAddresses ==
    [erc20Mock |-> store["erc20Mock"],
     erc20MockStrategy |-> store["erc20MockStrategy"],
     alignedLayerServiceManager |-> store["credibleAlignedLayerServiceManager"],
     alignedLayerServiceManagerImplementation |->
         store["credibleAlignedLayerServiceManagerImplementation"],
     alignedLayerTaskManager |-> store["credibleAlignedLayerTaskManager"],
     alignedLayerTaskManagerImplementation |->
         store["credibleAlignedLayerTaskManagerImplementation"],
     registryCoordinator |-> store["registryCoordinator"],
     registryCoordinatorImplementation |-> store["registryCoordinatorImplementation"]]

\* WRITE JSON DATA: the last statements of _deployCredibleAlignedLayerContracts.
WriteOutput ==
    /\ status = "running"
    /\ pc = Len(Program) + 1
    /\ outputJson' = SerializedAddresses
    /\ outputWritten' = TRUE
    /\ status' = "done"
    /\ UNCHANGED <<manifest, msgSender, nonce, pc, failedStep, store, chain, proxy,
                   whitelist, trace, gateVars, bootVars>>

(***************************************************************************)
(* NewConfig (core/config/config.go): data.                               *)
(***************************************************************************)
\* Text of an address as the json files hold it, and common.HexToAddress, which
\* gives the zero address for the empty string and for text that is no address.
AddrHex(a) == "0x" \o ToString(a)

KnownAddrs == {CreateAddress(AnvilAccount(0), n) : n \in 6..7}

HexToAddress(str) ==
    IF \E a \in KnownAddrs : str = AddrHex(a)
    THEN CHOOSE a \in KnownAddrs : str = AddrHex(a)
    ELSE ZeroAddr

\* What a deployment json file may hold in its address field.
AddrStrings == {"", AddrHex(ZeroAddr)} \cup {AddrHex(a) : a \in KnownAddrs}

\* The yaml configuration file.
ConfigRaws ==
    { [Environment |-> "development",
       EthRpcUrl |-> "http://localhost:8545",
       EthWsUrl |-> "ws://localhost:8545",
       AggregatorServerIpPortAddr |-> "localhost:8090",
       RegisterOperatorOnStartup |-> r,
       BLSPubkeyCompendiumAddr |-> AddrHex(ZeroAddr),
       AvsServiceManagerAddress |-> AddrHex(ZeroAddr),
       EnableMetrics |-> FALSE] : r \in BOOLEAN }

ZeroConfigRaw ==
    [Environment |-> "", EthRpcUrl |-> "", EthWsUrl |-> "",
     AggregatorServerIpPortAddr |-> "", RegisterOperatorOnStartup |-> FALSE,
     BLSPubkeyCompendiumAddr |-> "", AvsServiceManagerAddress |-> "",
     EnableMetrics |-> FALSE]

\* Chain identifiers the connected network may report.
ChainIds == {1, 31337}

\* The secret is a sequence of characters: up to MaxPrefixes copies of "0x"
\* followed by up to KeyHexLen + BodySlack characters.
MaxPrefixes == 2
BodySlack == 0
\* Number of hex digits of a private key (64 in go-ethereum, scaled down).
KeyHexLen == 2

HexDigits == {"0", "1"}
Alphabet == HexDigits \cup {"x"}

Bodies == UNION {[1..n -> Alphabet] : n \in 0..(KeyHexLen + BodySlack)}

RECURSIVE Prefixed(_, _)
Prefixed(k, body) == IF k = 0 THEN body ELSE <<"0", "x">> \o Prefixed(k - 1, body)

Secrets == {Prefixed(k, b) : k \in 0..MaxPrefixes, b \in Bodies}

RECURSIVE HexValue(_)
HexValue(str) ==
    IF str = <<>> THEN 0
    ELSE 16 * HexValue(SubSeq(str, 1, Len(str) - 1))
            + (IF str[Len(str)] = "1" THEN 1 ELSE 0)

\* crypto.HexToECDSA: the key, or the error it returns.
HexToECDSA(str) ==
    IF \E i \in DOMAIN str : str[i] \notin HexDigits
    THEN LET i == CHOOSE i \in DOMAIN str :
                      /\ str[i] \notin HexDigits
                      /\ \A j \in 1..(i - 1) : str[j] \in HexDigits
         IN  [key |-> 0,
              err |-> "invalid hex character '" \o str[i] \o "' in private key"]
    ELSE IF Len(str) % 2 = 1
    THEN [key |-> 0, err |-> "invalid hex data for private key"]
    ELSE IF Len(str) # KeyHexLen
    THEN [key |-> 0, err |-> "invalid length, need 256 bits"]
    ELSE IF HexValue(str) = 0
    THEN [key |-> 0, err |-> "invalid private key, zero or negative"]
    ELSE [key |-> HexValue(str), err |-> ""]

\* sdkutils.EcdsaPrivateKeyToAddress: the address of the key's public key.
EcdsaPrivateKeyToAddress(key) == 1000 + key

NoSigner == [key |-> 0, chainId |-> 0]

ZeroLocals ==
    [configRaw |-> ZeroConfigRaw,
     credibleSquaringDeploymentRaw |-> "",
     alignedLayerDeploymentRaw |-> "",
     sharedAvsContractsDeploymentRaw |-> "",
     logger |-> FALSE,
     ethRpcClient |-> FALSE,
     ethWsClient |-> FALSE,
     ecdsaPrivateKeyString |-> <<>>,
     ecdsaPrivateKey |-> 0,
     operatorAddr |-> ZeroAddr,
     chainId |-> 0,
     privateKeySigner |-> NoSigner]

ZeroConfig ==
    [EcdsaPrivateKey |-> 0,
     Logger |-> FALSE,
     EthRpcUrl |-> "",
     EthHttpClient |-> FALSE,
     EthWsClient |-> FALSE,
     BlsOperatorStateRetrieverAddr |-> ZeroAddr,
     AlignedLayerServiceManagerAddr |-> ZeroAddr,
     SlasherAddr |-> ZeroAddr,
     AggregatorServerIpPortAddr |-> "",
     RegisterOperatorOnStartup |-> FALSE,
     Signer |-> NoSigner,
     OperatorAddress |-> ZeroAddr,
     BlsPublicKeyCompendiumAddress |-> ZeroAddr,
     AVSServiceManagerAddress |-> ZeroAddr,
     EnableMetrics |-> FALSE]

\* NewConfig has not returned (it is running, or it panicked).
NoResult == [isNil |-> TRUE, config |-> ZeroConfig, err |-> ""]

NoRun == [secret |-> <<>>, outcome |-> "", output |-> <<>>, locals |-> ZeroLocals]

\* The process has not executed a statement of NewConfig yet.
FreshProcess ==
    /\ bootPc = "ReadConfigFile"
    /\ bootOutcome = "running"
    /\ secret = <<>>
    /\ locals = ZeroLocals
    /\ config = ZeroConfig
    /\ output = <<>>
    /\ steps = <<>>
    /\ result = NoResult

NotStarted ==
    /\ FreshProcess
    /\ bootRun = 1
    /\ bootEnv = <<>>
    /\ prevRun = NoRun

\* The state of the script's contract before run() is called.
NotDeployed ==
    /\ pc = 1
    /\ status = "running"
    /\ failedStep = ""
    /\ store = [v \in StoreVars |-> ZeroAddr]
    /\ chain = <<>>
    /\ proxy = <<>>
    /\ whitelist = {}
    /\ outputWritten = FALSE
    /\ outputJson = <<>>
    /\ trace = <<>>

\* No call of VerifySp1Proof has been made.
\* Number of goroutines that call the gate at the same time.
NumCallers == 2
Callers == 1..NumCallers

\* A caller that has not called the gate.
NoCall == [pc |-> "idle", buffer |-> 0, proofBuffer |-> 0, proofLen |-> 0,
           result |-> FALSE]

GateIdle ==
    /\ calls = [c \in Callers |-> NoCall]
    /\ gatePc = "idle"
    /\ gateCalls = 0
    /\ proofBuffer = 0
    /\ proofLen = 0
    /\ gateResult = FALSE
    /\ ffiLog = <<>>
    /\ ffiMemo = <<>>

InitDeploy ==
    /\ manifest \in ManifestInputs
    /\ msgSender \in {AnvilAccount(0), AnvilAccount(1)}
    /\ nonce \in 0..MaxStartNonce
    /\ NotDeployed
    /\ GateIdle
    /\ NotStarted

NextDeploy ==
    \/ DeployContract
    \/ DeployProxy
    \/ Upgrade
    \/ UpgradeAndCall
    \/ AddStrategiesToDepositWhitelist
    \/ TxRevert
    \/ WriteOutput

SpecDeploy == InitDeploy /\ [][NextDeploy]_vars

(***************************************************************************)
(* The proof gate: VerifySp1Proof and the external verifier behind it.    *)
(***************************************************************************)
\* Number of distinct buffer contents a caller may pass.
NumBuffers == 2
\* Number of calls of the gate in one run.
MaxCalls == 2
\* Lengths tried lie within LenSlack of 0 and of MAX_PROOF_SIZE.
LenSlack == 1

MAX_PROOF_SIZE == 1024 * 1024

Buffers == 1..NumBuffers
ProofLens ==
    (0..LenSlack) \cup ((MAX_PROOF_SIZE - LenSlack)..(MAX_PROOF_SIZE + LenSlack))

\* Mutant: the length is converted to a 16-bit integer.
CUint_Uint16(n) == n % 65536

\* (C.uint)(proofLen): the value modulo 2^32, computed on 16-bit halves.
CUint(n) == (n % 65536) + 65536 * ((n \div 65536) % 65536)

\* The arguments VerifySp1Proof hands to verify_sp1_proof_ffi: a pointer to its
\* own copy of the buffer, and the converted length.
FfiArgs(buf, len) == [buffer |-> buf, len |-> CUint(len)]

\* verify_sp1_proof_ffi reads `len` bytes at the pointer. Within the array the
\* verdict is a function of the bytes and the length; past the end of the
\* array the read is undefined: any verdict, or a fault.
FfiCall(args) ==
    IF args.len <= MAX_PROOF_SIZE
    THEN /\ gatePc' = "returned"
         /\ IF <<args.buffer, args.len>> \in DOMAIN ffiMemo
            THEN /\ gateResult' = ffiMemo[<<args.buffer, args.len>>]
                 /\ ffiMemo' = ffiMemo
            ELSE \E v \in BOOLEAN :
                    /\ gateResult' = v
                    /\ ffiMemo' = ffiMemo @@ (<<args.buffer, args.len>> :> v)
    ELSE /\ gatePc' \in {"returned", "fault"}
         /\ gateResult' \in IF gatePc' = "fault" THEN {FALSE} ELSE BOOLEAN
         /\ ffiMemo' = ffiMemo

\* func VerifySp1Proof(proofBuffer [MAX_PROOF_SIZE]byte, proofLen uint) bool
VerifySp1Proof ==
    /\ gatePc # "fault"
    /\ gateCalls < MaxCalls
    /\ \E buf \in Buffers, len \in ProofLens :
          /\ proofBuffer' = buf
          /\ proofLen' = len
          /\ ffiLog' = << FfiArgs(buf, len) >>
          /\ FfiCall(FfiArgs(buf, len))
    /\ gateCalls' = gateCalls + 1
    /\ UNCHANGED <<calls, deployVars, bootVars>>

InitGate ==
    /\ manifest = ReadManifest(0)
    /\ msgSender = AnvilAccount(0)
    /\ nonce = 0
    /\ NotDeployed
    /\ GateIdle
    /\ NotStarted

NextGate == VerifySp1Proof

SpecGate == InitGate /\ [][NextGate]_vars

(***************************************************************************)
(* VerifySp1Proof called from several goroutines at once.                 *)
(***************************************************************************)
\* Lengths the concurrent callers pass: in range, the largest in range, and
\* one past the array.
CallLens == {1, MAX_PROOF_SIZE, MAX_PROOF_SIZE + 1}

\* A read past the array has killed the process.
Faulted == \E c \in Callers : calls[c].pc = "fault"

\* Caller c calls VerifySp1Proof(buffer, len): the array is passed by value,
\* so the gate holds its own copy of the caller's buffer.
CallVerifySp1Proof(c) ==
    /\ ~Faulted
    /\ calls[c].pc = "idle"
    /\ \E buf \in Buffers, len \in CallLens :
          calls' = [calls EXCEPT ![c] = [pc |-> "called", buffer |-> buf,
                                         proofBuffer |-> buf, proofLen |-> len,
                                         result |-> FALSE]]
    /\ UNCHANGED <<gatePc, gateCalls, proofBuffer, proofLen, gateResult, ffiLog,
                   ffiMemo, deployVars, bootVars>>

\* While its call is in flight, caller c writes other bytes into its own array.
CallerOverwritesBuffer(c) ==
    /\ ~Faulted
    /\ calls[c].pc = "called"
    /\ \E buf \in Buffers \ {calls[c].buffer} :
          calls' = [calls EXCEPT ![c].buffer = buf]
    /\ UNCHANGED <<gatePc, gateCalls, proofBuffer, proofLen, gateResult, ffiLog,
                   ffiMemo, deployVars, bootVars>>

\* verify_sp1_proof_ffi runs on the gate's copy for caller c and the gate
\* returns its verdict; past the array the read is undefined.
VerifierReturns(c) ==
    /\ ~Faulted
    /\ calls[c].pc = "called"
    /\ LET args == FfiArgs(calls[c].proofBuffer, calls[c].proofLen)
           key == <<args.buffer, args.len>>
       IN  IF args.len <= MAX_PROOF_SIZE
           THEN IF key \in DOMAIN ffiMemo
                THEN /\ calls' = [calls EXCEPT ![c].pc = "returned",
                                               ![c].result = ffiMemo[key]]
                     /\ ffiMemo' = ffiMemo
                ELSE \E v \in BOOLEAN :
                        /\ calls' = [calls EXCEPT ![c].pc = "returned",
                                                  ![c].result = v]
                        /\ ffiMemo' = ffiMemo @@ (key :> v)
           ELSE /\ \/ \E v \in BOOLEAN :
                        calls' = [calls EXCEPT ![c].pc = "returned", ![c].result = v]
                   \/ calls' = [calls EXCEPT ![c].pc = "fault"]
                /\ ffiMemo' = ffiMemo
    /\ UNCHANGED <<gatePc, gateCalls, proofBuffer, proofLen, gateResult, ffiLog,
                   deployVars, bootVars>>

NextGateConcurrent ==
    \E c \in Callers :
        \/ CallVerifySp1Proof(c)
        \/ CallerOverwritesBuffer(c)
        \/ VerifierReturns(c)

SpecGateConcurrent == InitGate /\ [][NextGateConcurrent]_vars

(***************************************************************************)
(* NewConfig (core/config/config.go): one action per statement group.     *)
(***************************************************************************)
At(stmt) == bootOutcome = "running" /\ bootPc = stmt

\* The environment answers question k with v: the answer it gave before, if any.
Answer(k, v) ==
    /\ k \in DOMAIN bootEnv => v = bootEnv[k]
    /\ bootEnv' = bootEnv @@ (k :> v)

Printed(msg, value) == [sink |-> "stdout", msg |-> msg, value |-> value]
Logged(msg, err) == [sink |-> "log", msg |-> msg, value |-> err]
Panicked(msg, value) == [sink |-> "panic", msg |-> msg, value |-> value]

\* The statement ended normally: NewConfig goes on with `next`.
Goto(next) ==
    /\ bootPc' = next
    /\ bootOutcome' = "running"
    /\ steps' = Append(steps, bootPc)
    /\ result' = result

\* Mutant: the error is returned together with the Config built so far.
ReturnError_WithConfig(err) ==
    /\ bootPc' = bootPc
    /\ bootOutcome' = "error"
    /\ steps' = Append(steps, bootPc)
    /\ result' = [isNil |-> FALSE, config |-> config, err |-> err]

\* return nil, err
ReturnError(err) ==
    /\ bootPc' = bootPc
    /\ bootOutcome' = "error"
    /\ steps' = Append(steps, bootPc)
    /\ result' = [isNil |-> TRUE, config |-> ZeroConfig, err |-> err]

\* panic(...)
Panic ==
    /\ bootPc' = bootPc
    /\ bootOutcome' = "panic"
    /\ steps' = Append(steps, bootPc)
    /\ result' = result

\* var configRaw; ReadYamlConfig(configFilePath, &configRaw); fmt.Println(...)
ReadConfigFile ==
    /\ At("ReadConfigFile")
    /\ \E raw \in ConfigRaws :
          /\ Answer("configFile", raw)
          /\ locals' = [locals EXCEPT !.configRaw = raw]
          /\ output' = Append(output, Printed("CONFIG RAW: ", raw))
    /\ Goto("LoadAlignedLayerDeployment")
    /\ UNCHANGED <<bootRun, secret, config, prevRun, deployVars, gateVars>>

\* os.Stat(credibleSquaringDeploymentFilePath), panic if the path does not exist;
\* ReadJsonConfig(alignedLayerDeploymentFilePath, &alignedLayerDeploymentRaw):
\* the file is decoded into alignedLayerDeploymentRaw, and
\* credibleSquaringDeploymentRaw keeps its zero value.
LoadAlignedLayerDeployment ==
    /\ At("LoadAlignedLayerDeployment")
    /\ \E exists \in BOOLEAN, text \in AddrStrings :
          /\ Answer("alignedLayerDeploymentFile", <<exists, text>>)
          /\ IF exists
             THEN /\ locals' = [locals EXCEPT !.alignedLayerDeploymentRaw = text]
                  /\ output' = output
                  /\ Goto("LoadSharedAvsContracts")
             ELSE /\ text = ""
                  /\ locals' = locals
                  /\ output' = Append(output,
                        Panicked("Path does not exist", "aligned-layer-deployment"))
                  /\ Panic
    /\ UNCHANGED <<bootRun, secret, config, prevRun, deployVars, gateVars>>

\* Mutant: a missing shared-contracts file is read as an empty manifest.
LoadSharedAvsContracts_NoStat ==
    /\ At("LoadSharedAvsContracts")
    /\ \E exists \in BOOLEAN, text \in AddrStrings :
          /\ Answer("sharedAvsContractsDeploymentFile", <<exists, text>>)
          /\ ~exists => text = ""
          /\ locals' = [locals EXCEPT !.sharedAvsContractsDeploymentRaw = text]
          /\ output' = output
          /\ Goto("NewZapLogger")
    /\ UNCHANGED <<bootRun, secret, config, prevRun, deployVars, gateVars>>

\* os.Stat(sharedAvsContractsDeploymentFilePath), panic if it does not exist;
\* ReadJsonConfig(sharedAvsContractsDeploymentFilePath, &sharedAvsContractsDeploymentRaw)
LoadSharedAvsContracts ==
    /\ At("LoadSharedAvsContracts")
    /\ \E exists \in BOOLEAN, text \in AddrStrings :
          /\ Answer("sharedAvsContractsDeploymentFile", <<exists, text>>)
          /\ IF exists
             THEN /\ locals' = [locals EXCEPT !.sharedAvsContractsDeploymentRaw = text]
                  /\ output' = output
                  /\ Goto("NewZapLogger")
             ELSE /\ text = ""
                  /\ locals' = locals
                  /\ output' = Append(output,
                        Panicked("Path does not exist", "shared-avs-contracts-deployment"))
                  /\ Panic
    /\ UNCHANGED <<bootRun, secret, config, prevRun, deployVars, gateVars>>

\* logger, err := sdklogging.NewZapLogger(configRaw.Environment)
NewZapLogger ==
    /\ At("NewZapLogger")
    /\ \E ok \in BOOLEAN :
          /\ Answer("NewZapLogger", ok)
          /\ IF ok
             THEN /\ locals' = [locals EXCEPT !.logger = TRUE]
                  /\ Goto("NewEthRpcClient")
             ELSE /\ locals' = locals
                  /\ ReturnError("cannot build logger")
    /\ UNCHANGED <<bootRun, secret, config, output, prevRun, deployVars, gateVars>>

\* ethRpcClient, err := eth.NewClient(configRaw.EthRpcUrl)
NewEthRpcClient ==
    /\ At("NewEthRpcClient")
    /\ \E ok \in BOOLEAN :
          /\ Answer("NewClient(EthRpcUrl)", ok)
          /\ IF ok
             THEN /\ locals' = [locals EXCEPT !.ethRpcClient = TRUE]
                  /\ output' = output
                  /\ Goto("NewEthWsClient")
             ELSE /\ locals' = locals
                  /\ output' = Append(output,
                        Logged("Cannot create http ethclient", "dial error"))
                  /\ ReturnError("dial error")
    /\ UNCHANGED <<bootRun, secret, config, prevRun, deployVars, gateVars>>

\* ethWsClient, err := eth.NewClient(configRaw.EthWsUrl)
NewEthWsClient ==
    /\ At("NewEthWsClient")
    /\ \E ok \in BOOLEAN :
          /\ Answer("NewClient(EthWsUrl)", ok)
          /\ IF ok
             THEN /\ locals' = [locals EXCEPT !.ethWsClient = TRUE]
                  /\ output' = output
                  /\ Goto("ParseEcdsaPrivateKey")
             ELSE /\ locals' = locals
                  /\ output' = Append(output,
                        Logged("Cannot create ws ethclient", "dial error"))
                  /\ ReturnError("dial error")
    /\ UNCHANGED <<bootRun, secret, config, prevRun, deployVars, gateVars>>

\* The secret as one string.
RECURSIVE Join(_)
Join(str) == IF str = <<>> THEN "" ELSE Head(str) \o Join(Tail(str))

\* Mutant: the log line carries the string that failed to parse.
ParseErrorLog_WithSecret(str, err) ==
    Logged("Cannot parse ecdsa private key", Join(str))

\* logger.Errorf("Cannot parse ecdsa private key", "err", err)
ParseErrorLog(str, err) == Logged("Cannot parse ecdsa private key", err)

\* Mutant: the prefix is never stripped.
StripPrefix_Never(str) == str

\* if ecdsaPrivateKeyString[:2] == "0x" { ecdsaPrivateKeyString = ecdsaPrivateKeyString[2:] }
StripPrefix(str) ==
    IF SubSeq(str, 1, 2) = <<"0", "x">> THEN SubSeq(str, 3, Len(str)) ELSE str

\* ecdsaPrivateKeyString := ctx.GlobalString(...); the slice [:2] panics on a
\* string shorter than two bytes; then the prefix is stripped and the key parsed.
ParseEcdsaPrivateKey ==
    /\ At("ParseEcdsaPrivateKey")
    /\ \E str \in Secrets :
          /\ secret' = str
          /\ IF Len(str) < 2
             THEN /\ locals' = [locals EXCEPT !.ecdsaPrivateKeyString = str]
                  /\ output' = Append(output,
                        Panicked("slice bounds out of range [:2] with length",
                                 ToString(Len(str))))
                  /\ Panic
             ELSE LET parsed == HexToECDSA(StripPrefix(str))
                  IN  IF parsed.err # ""
                      THEN /\ locals' = [locals EXCEPT
                                            !.ecdsaPrivateKeyString = StripPrefix(str)]
                           /\ output' = Append(output,
                                 ParseErrorLog(StripPrefix(str), parsed.err))
                           /\ ReturnError(parsed.err)
                      ELSE /\ locals' = [locals EXCEPT
                                            !.ecdsaPrivateKeyString = StripPrefix(str),
                                            !.ecdsaPrivateKey = parsed.key]
                           /\ output' = output
                           /\ Goto("DeriveOperatorAddress")
    /\ UNCHANGED <<bootRun, bootEnv, config, prevRun, deployVars, gateVars>>

\* operatorAddr, err := sdkutils.EcdsaPrivateKeyToAddress(ecdsaPrivateKey)
DeriveOperatorAddress ==
    /\ At("DeriveOperatorAddress")
    /\ locals' = [locals EXCEPT
                    !.operatorAddr = EcdsaPrivateKeyToAddress(locals.ecdsaPrivateKey)]
    /\ Goto("QueryChainId")
    /\ UNCHANGED <<bootRun, bootEnv, secret, config, output, prevRun, deployVars,
                   gateVars>>

\* chainId, err := ethRpcClient.ChainID(context.Background()); 0 stands for a
\* failed query.
QueryChainId ==
    /\ At("QueryChainId")
    /\ \E id \in {0} \cup ChainIds :
          /\ Answer("ChainID", id)
          /\ IF id # 0
             THEN /\ locals' = [locals EXCEPT !.chainId = id]
                  /\ output' = output
                  /\ Goto("NewPrivateKeySigner")
             ELSE /\ locals' = locals
                  /\ output' = Append(output, Logged("Cannot get chainId", "rpc error"))
                  /\ ReturnError("rpc error")
    /\ UNCHANGED <<bootRun, secret, config, prevRun, deployVars, gateVars>>

\* Mutant: the signer is bound to chain id 1 whatever the network reported.
BoundSigner_Mainnet(key, id) == [key |-> key, chainId |-> 1]

\* signer.NewPrivateKeySigner(ecdsaPrivateKey, chainId)
BoundSigner(key, id) == [key |-> key, chainId |-> id]

\* privateKeySigner, err := signer.NewPrivateKeySigner(ecdsaPrivateKey, chainId)
NewPrivateKeySigner ==
    /\ At("NewPrivateKeySigner")
    /\ \E ok \in BOOLEAN :
          /\ Answer("NewPrivateKeySigner", ok)
          /\ IF ok
             THEN /\ locals' = [locals EXCEPT !.privateKeySigner =
                                    BoundSigner(locals.ecdsaPrivateKey, locals.chainId)]
                  /\ output' = output
                  /\ Goto("AssembleConfig")
             ELSE /\ locals' = locals
                  /\ output' = Append(output, Logged("Cannot create signer", "signer error"))
                  /\ ReturnError("signer error")
    /\ UNCHANGED <<bootRun, secret, config, prevRun, deployVars, gateVars>>

\* config := &Config{...}
ConfigLiteral ==
    [EcdsaPrivateKey |-> locals.ecdsaPrivateKey,
     Logger |-> locals.logger,
     EthRpcUrl |-> locals.configRaw.EthRpcUrl,
     EthHttpClient |-> locals.ethRpcClient,
     EthWsClient |-> locals.ethWsClient,
     BlsOperatorStateRetrieverAddr |->
         HexToAddress(locals.sharedAvsContractsDeploymentRaw),
     AlignedLayerServiceManagerAddr |->
         HexToAddress(locals.credibleSquaringDeploymentRaw),
     SlasherAddr |-> HexToAddress(""),
     AggregatorServerIpPortAddr |-> locals.configRaw.AggregatorServerIpPortAddr,
     RegisterOperatorOnStartup |-> locals.configRaw.RegisterOperatorOnStartup,
     Signer |-> locals.privateKeySigner,
     OperatorAddress |-> locals.operatorAddr,
     BlsPublicKeyCompendiumAddress |->
         HexToAddress(locals.configRaw.BLSPubkeyCompendiumAddr),
     AVSServiceManagerAddress |->
         HexToAddress(locals.configRaw.AvsServiceManagerAddress),
     EnableMetrics |-> locals.configRaw.EnableMetrics]

AssembleConfig ==
    /\ At("AssembleConfig")
    /\ config' = ConfigLiteral
    /\ Goto("ValidateAndReturn")
    /\ UNCHANGED <<bootRun, bootEnv, secret, locals, output, prevRun, deployVars,
                   gateVars>>

\* Mutant: validate checks nothing.
validate_AcceptAll(c) == ""

\* Mutant: only the first required address is checked.
validate_FirstOnly(c) ==
    IF c.BlsOperatorStateRetrieverAddr = HexToAddress("")
    THEN "Config: BLSOperatorStateRetrieverAddr is required"
    ELSE ""

\* func (c *Config) validate(): the panic message, "" when it returns.
validate(c) ==
    IF c.BlsOperatorStateRetrieverAddr = HexToAddress("")
    THEN "Config: BLSOperatorStateRetrieverAddr is required"
    ELSE IF c.AlignedLayerServiceManagerAddr = HexToAddress("")
    THEN "Config: AlignedLayerServiceManagerAddr is required"
    ELSE ""

\* config.validate(); return config, nil
ValidateAndReturn ==
    /\ At("ValidateAndReturn")
    /\ IF validate(config) # ""
       THEN /\ output' = Append(output, Panicked(validate(config), ""))
            /\ Panic
       ELSE /\ output' = output
            /\ bootPc' = bootPc
            /\ bootOutcome' = "returned"
            /\ steps' = Append(steps, bootPc)
            /\ result' = [isNil |-> FALSE, config |-> config, err |-> ""]
    /\ UNCHANGED <<bootRun, bootEnv, secret, locals, config, prevRun, deployVars,
                   gateVars>>

\* The process is started a second time, in the same environment.
Restart ==
    /\ bootOutcome # "running"
    /\ bootRun = 1
    /\ bootRun' = 2
    /\ prevRun' = [secret |-> secret, outcome |-> bootOutcome, output |-> output,
                   locals |-> locals]
    /\ bootPc' = "ReadConfigFile"
    /\ bootOutcome' = "running"
    /\ secret' = <<>>
    /\ locals' = ZeroLocals
    /\ config' = ZeroConfig
    /\ output' = <<>>
    /\ steps' = <<>>
    /\ result' = NoResult
    /\ UNCHANGED <<bootEnv, deployVars, gateVars>>

InitConfig ==
    /\ manifest = ReadManifest(0)
    /\ msgSender = AnvilAccount(0)
    /\ nonce = 0
    /\ NotDeployed
    /\ GateIdle
    /\ NotStarted

NextConfig ==
    \/ ReadConfigFile
    \/ LoadAlignedLayerDeployment
    \/ LoadSharedAvsContracts
    \/ NewZapLogger
    \/ NewEthRpcClient
    \/ NewEthWsClient
    \/ ParseEcdsaPrivateKey
    \/ DeriveOperatorAddress
    \/ QueryChainId
    \/ NewPrivateKeySigner
    \/ AssembleConfig
    \/ ValidateAndReturn
    \/ Restart

SpecConfig == InitConfig /\ [][NextConfig]_vars

\* Largest address a Config handed to validate may hold.
MaxAddr == 7

\* validate() applied to a Config with any addresses.
InitValidate ==
    /\ manifest = ReadManifest(0)
    /\ msgSender = AnvilAccount(0)
    /\ nonce = 0
    /\ NotDeployed
    /\ GateIdle
    /\ bootPc = "ValidateAndReturn"
    /\ bootOutcome = "running"
    /\ bootRun = 1
    /\ bootEnv = <<>>
    /\ secret = <<>>
    /\ locals = ZeroLocals
    /\ \E a \in 0..MaxAddr, b \in 0..MaxAddr :
          config = [ZeroConfig EXCEPT !.BlsOperatorStateRetrieverAddr = a,
                                      !.AlignedLayerServiceManagerAddr = b]
    /\ output = <<>>
    /\ steps = <<>>
    /\ result = NoResult
    /\ prevRun = NoRun

NextValidate == ValidateAndReturn

SpecValidate == InitValidate /\ [][NextValidate]_vars

(***************************************************************************)
(* Properties of the provisioning run.                                    *)
(***************************************************************************)
\* Phase A: deployment of a component's proxy shell.
PhaseA(e) == e.op = "newProxy" /\ e.label \in Components
\* Phase B: token, strategy proxy, allow-list registration.
PhaseBLabels == {"erc20Mock", "erc20MockStrategy", "addStrategiesToDepositWhitelist"}
PhaseB(e) == e.label \in PhaseBLabels
\* Phase C: deployment of a component's implementation.
PhaseC(e) == e.op = "new" /\ e.label \in {ImplementationOf(c) : c \in Components}
\* Phase D: upgrade or upgradeAndCall of a component's proxy.
PhaseD(e) == e.op \in {"upgrade", "upgradeAndCall"} /\ e.label \in Components

Earlier(i) == 1..(i - 1)
PhaseDDone(c) == \E i \in DOMAIN trace : PhaseD(trace[i]) /\ trace[i].label = c
Repointed(c) ==
    /\ store[c] \in DOMAIN proxy
    /\ proxy[store[c]].impl # store["emptyContract"]

\* C1 (as stated): every Phase-B step is executed only after all six Phase-A
\* proxy shells have been deployed.
C1_PhaseABeforePhaseB ==
    \A i \in DOMAIN trace :
        PhaseB(trace[i]) =>
            \A c \in Components :
                \E j \in Earlier(i) : PhaseA(trace[j]) /\ trace[j].label = c

\* C1 (amended): Phase B fully completes before Phase A begins: every Phase-A
\* proxy shell is deployed only after the token, the strategy proxy and the
\* allow-list registration have all been executed.
C1_PhaseBBeforePhaseA ==
    \A i \in DOMAIN trace :
        PhaseA(trace[i]) =>
            \A b \in PhaseBLabels :
                \E j \in Earlier(i) : trace[j].label = b /\ ~PhaseA(trace[j])

C1_Witness ==
    \E i \in DOMAIN trace : PhaseA(trace[i]) /\ trace[i].label = "stakeRegistry"

\* C2 (as stated): no Phase-D step is executed until every one of the six
\* Phase-C implementations has been deployed.
C2_AllImplementationsBeforeAnyUpgrade ==
    \A i \in DOMAIN trace :
        PhaseD(trace[i]) =>
            \A c \in Components :
                \E j \in Earlier(i) :
                    PhaseC(trace[j]) /\ trace[j].label = ImplementationOf(c)

\* C2 (amended): no Phase-D step on a component's proxy is executed until that
\* component's own Phase-C implementation has been deployed, and it installs
\* that implementation.
C2_OwnImplementationBeforeUpgrade ==
    \A i \in DOMAIN trace :
        PhaseD(trace[i]) =>
            \E j \in Earlier(i) :
                /\ PhaseC(trace[j])
                /\ trace[j].label = ImplementationOf(trace[i].label)
                /\ trace[j].created = trace[i].impl

C2_Witness ==
    /\ PhaseDDone("stakeRegistry")
    /\ store["registryCoordinatorImplementation"] = ZeroAddr

\* C3: every contract address a transaction passes (constructor argument,
\* proxy logic or admin, call target, upgrade implementation, initializer
\* argument) was read from the input manifests or is the address of a contract
\* deployed by an earlier transaction of the same run.
C3_DependenciesExist ==
    \A i \in DOMAIN trace :
        \A r \in trace[i].refs :
            \/ r \in ManifestAddrs
            \/ r # ZeroAddr /\ \E j \in Earlier(i) : trace[j].created = r

C3_Witness ==
    \E i \in DOMAIN trace :
        /\ trace[i].label = "registryCoordinatorImplementation"
        /\ {store["stakeRegistry"], store["blsPubkeyRegistry"], store["indexRegistry"],
            store["credibleAlignedLayerServiceManager"]} \subseteq trace[i].refs
        /\ manifest["slasher"] \in trace[i].refs

\* The contract at address r is in its final form before transaction i: it was
\* given in the manifests, or deployed earlier as a plain contract, or deployed
\* earlier as a proxy that was initialized at construction or upgraded since.
Finalized(r, i) ==
    \/ r \in ManifestAddrs
    \/ /\ r # ZeroAddr
       /\ \E j \in Earlier(i) :
            /\ trace[j].created = r
            /\ \/ trace[j].op = "new"
               \/ trace[j].op = "newProxy" /\ trace[j].hasInit
               \/ \E k \in (j + 1)..(i - 1) :
                    /\ trace[k].op \in {"upgrade", "upgradeAndCall"}
                    /\ trace[k].target = r

\* C4: whenever a component's proxy is upgraded and initialized, every
\* contract its initializer references has already been finalized.
C4_InitializerDependenciesFinalized ==
    \A i \in DOMAIN trace :
        trace[i].op = "upgradeAndCall" =>
            \A r \in trace[i].initRefs : Finalized(r, i)

C4_Witness ==
    \E i \in DOMAIN trace :
        /\ trace[i].op = "upgradeAndCall"
        /\ trace[i].label = "stakeRegistry"
        /\ store["erc20MockStrategy"] \in trace[i].initRefs
        /\ store["erc20MockStrategy"] \in DOMAIN proxy
        /\ proxy[store["erc20MockStrategy"]].initialized

\* C5 (as stated): every component proxy that has been repointed at its
\* implementation had its initializer invoked in the same step.
C5_RepointedImpliesInitialized ==
    /\ \A c \in Components : Repointed(c) => proxy[store[c]].initialized
    /\ \A i \in DOMAIN trace : PhaseD(trace[i]) => trace[i].op = "upgradeAndCall"

\* The components run() upgrades with upgradeAndCall.
InitializedComponents ==
    {"stakeRegistry", "registryCoordinator", "credibleAlignedLayerServiceManager",
     "credibleAlignedLayerTaskManager"}

\* C5 (amended): each component proxy is repointed by one single transaction;
\* for the stake registry, the registry coordinator, the service manager and
\* the task manager that transaction also invokes the initializer, for the BLS
\* pubkey registry and the index registry it is a plain upgrade and no
\* initializer is ever invoked.
C5_RepointedInitializedExceptRegistries ==
    /\ \A c \in Components :
          /\ Repointed(c) =>
                (proxy[store[c]].initialized <=> c \in InitializedComponents)
          /\ Repointed(c) <=> PhaseDDone(c)
          /\ Cardinality({i \in DOMAIN trace :
                            PhaseD(trace[i]) /\ trace[i].label = c}) <= 1
    /\ \A i \in DOMAIN trace :
          PhaseD(trace[i]) =>
              /\ trace[i].op = "upgradeAndCall" <=> trace[i].label \in InitializedComponents
              /\ trace[i].hasInit <=> trace[i].op = "upgradeAndCall"

C5_Witness ==
    /\ status = "done"
    /\ \A c \in Components : Repointed(c)
    /\ ~proxy[store["blsPubkeyRegistry"]].initialized
    /\ proxy[store["credibleAlignedLayerServiceManager"]].initialized

\* C6: a component proxy that has not passed its Phase-D step points at the
\* empty contract and is uninitialized.
C6_UnusableBeforePhaseD ==
    \A c \in Components :
        (store[c] # ZeroAddr /\ ~PhaseDDone(c)) =>
            /\ store[c] \in DOMAIN proxy
            /\ proxy[store[c]].impl = store["emptyContract"]
            /\ proxy[store[c]].impl \in DOMAIN chain
            /\ chain[proxy[store[c]].impl].kind = "EmptyContract"
            /\ ~proxy[store[c]].initialized
            /\ proxy[store[c]].initRefs = {}

C6_Witness ==
    /\ PhaseDDone("stakeRegistry")
    /\ store["credibleAlignedLayerTaskManager"] # ZeroAddr
    /\ ~PhaseDDone("credibleAlignedLayerTaskManager")

OutputValues == {outputJson[k] : k \in DOMAIN outputJson}

\* C7 (as stated): when the run completes the output manifest has an entry
\* with the address of each of the six components and of the token and the
\* strategy.
C7_EveryComponentInManifest ==
    status = "done" =>
        /\ outputWritten
        /\ \A c \in Components \cup {"erc20Mock", "erc20MockStrategy"} :
              store[c] \in OutputValues

\* The variables whose address run() writes to the output manifest.
RecordedVars ==
    {"erc20Mock", "erc20MockStrategy",
     "credibleAlignedLayerServiceManager",
     "credibleAlignedLayerServiceManagerImplementation",
     "credibleAlignedLayerTaskManager",
     "credibleAlignedLayerTaskManagerImplementation",
     "registryCoordinator", "registryCoordinatorImplementation"}

\* C7 (amended): when the run completes the output manifest holds the final
\* address of the token, the strategy, and the proxy and the implementation of
\* the service manager, the task manager and the registry coordinator, each
\* under its own key; the BLS pubkey registry, the index registry and the
\* stake registry have no entry.
C7_RecordedComponentsInManifest ==
    status = "done" =>
        /\ outputWritten
        /\ OutputValues = {store[v] : v \in RecordedVars}
        /\ \A v \in StoreVars : store[v] \in OutputValues <=> v \in RecordedVars
        /\ outputJson["erc20Mock"] = store["erc20Mock"]
        /\ outputJson["erc20MockStrategy"] = store["erc20MockStrategy"]
        /\ outputJson["alignedLayerServiceManager"]
              = store["credibleAlignedLayerServiceManager"]
        /\ outputJson["alignedLayerTaskManager"] = store["credibleAlignedLayerTaskManager"]
        /\ outputJson["registryCoordinator"] = store["registryCoordinator"]
        /\ outputJson["alignedLayerServiceManagerImplementation"]
              = proxy[outputJson["alignedLayerServiceManager"]].impl
        /\ outputJson["alignedLayerTaskManagerImplementation"]
              = proxy[outputJson["alignedLayerTaskManager"]].impl
        /\ outputJson["registryCoordinatorImplementation"]
              = proxy[outputJson["registryCoordinator"]].impl

C7_Witness ==
    /\ status = "done"
    /\ outputWritten
    /\ store["stakeRegistry"] # ZeroAddr
    /\ store["stakeRegistry"] \notin OutputValues

Called == gateCalls > 0
InRange(len) == 0 < len /\ len <= MAX_PROOF_SIZE

\* C9: a call with length 0 or length > MAX_PROOF_SIZE returns false and does
\* not invoke the external verifier.
C9_OutOfRangeRejected ==
    (Called /\ ~InRange(proofLen)) =>
        /\ gatePc = "returned"
        /\ gateResult = FALSE
        /\ ffiLog = <<>>

\* C10: a call with 0 < length <= MAX_PROOF_SIZE invokes the external verifier
\* exactly once, with the caller's buffer and exactly that length, and returns
\* the verifier's verdict.
C10_InRangeForwarded ==
    (Called /\ InRange(proofLen)) =>
        /\ gatePc = "returned"
        /\ Len(ffiLog) = 1
        /\ ffiLog[1].buffer = proofBuffer
        /\ ffiLog[1].len = proofLen
        /\ <<proofBuffer, proofLen>> \in DOMAIN ffiMemo
        /\ gateResult = ffiMemo[<<proofBuffer, proofLen>>]

C10_Witness ==
    /\ Called
    /\ proofLen = MAX_PROOF_SIZE
    /\ gateResult = TRUE
    /\ Len(ffiLog) = 1

\* Stage of a component record: 0 address unset, 1 proxy address (the proxy
\* points at the empty contract), 2 final (the proxy points at its implementation).
StageOf(st, px, c) ==
    IF st[c] = ZeroAddr THEN 0
    ELSE IF px[st[c]].impl = st["emptyContract"] THEN 1
    ELSE 2

UpgradesOf(c) ==
    {i \in DOMAIN trace :
        trace[i].op \in {"upgrade", "upgradeAndCall"} /\ trace[i].target = store[c]}

\* C20: every component record moves only forward, one stage at a time,
\* through unset, proxy address, final; its address never changes once set;
\* its proxy is upgraded only after it was deployed and at most once; no
\* step changes a final record; the output is written only when every
\* record is final.
C20_RecordsMoveForward ==
    /\ [](\A c \in Components :
            /\ Cardinality(UpgradesOf(c)) <= 1
            /\ Cardinality(UpgradesOf(c)) = 1 <=> StageOf(store, proxy, c) = 2
            /\ \A i \in UpgradesOf(c) :
                  \E j \in Earlier(i) :
                      trace[j].op = "newProxy" /\ trace[j].created = store[c])
    /\ [](outputWritten => \A c \in Components : StageOf(store, proxy, c) = 2)
    /\ [][\A c \in Components :
            /\ StageOf(store', proxy', c) \in
                    {StageOf(store, proxy, c), StageOf(store, proxy, c) + 1}
            /\ store[c] # ZeroAddr => store'[c] = store[c]
            /\ StageOf(store, proxy, c) = 2 => proxy'[store[c]] = proxy[store[c]]]_vars

C20_Witness ==
    /\ outputWritten
    /\ \A c \in Components :
          StageOf(store, proxy, c) = 2 /\ Cardinality(UpgradesOf(c)) = 1

\* The addresses the constructor of the contract held by `var` received.
ConstructorRefs(var) == chain[store[var]].refs

\* No step changes the address of a component once its proxy is deployed.
AddressesStable ==
    \A c \in Components : store[c] # ZeroAddr => store'[c] = store[c]

\* The stake registry and the registry coordinator reference one another: each
\* implementation received in its constructor the address the other has now.
MutualReferencesHold ==
    /\ store["stakeRegistryImplementation"] # ZeroAddr
          => /\ store["registryCoordinator"] # ZeroAddr
             /\ store["registryCoordinator"] \in ConstructorRefs("stakeRegistryImplementation")
    /\ store["registryCoordinatorImplementation"] # ZeroAddr
          => /\ store["stakeRegistry"] # ZeroAddr
             /\ store["stakeRegistry"] \in ConstructorRefs("registryCoordinatorImplementation")

\* C21 (as stated): component addresses are stable from Phase A on, the
\* address each of the two implementations received is the address of the
\* other component, and that address is written to the manifest.
C21_StableAddressesInManifest ==
    /\ [][AddressesStable]_vars
    /\ []MutualReferencesHold
    /\ [](status = "done"
            => /\ store["registryCoordinator"] \in OutputValues
               /\ store["stakeRegistry"] \in OutputValues)

\* C21 (amended): component addresses are stable from Phase A on and the
\* address each of the two implementations received is the address of the
\* other component; the registry coordinator's address is the one written
\* to the manifest under "registryCoordinator", and the stake registry's
\* address is not written to the manifest.
C21_StableAddressesCoordinatorInManifest ==
    /\ [][AddressesStable]_vars
    /\ []MutualReferencesHold
    /\ [](status = "done"
            => /\ outputJson["registryCoordinator"] = store["registryCoordinator"]
               /\ proxy[outputJson["registryCoordinator"]].impl
                     = store["registryCoordinatorImplementation"]
               /\ store["stakeRegistry"] \notin OutputValues)

C21_Witness ==
    /\ status = "done"
    /\ StageOf(store, proxy, "stakeRegistry") = 2
    /\ StageOf(store, proxy, "registryCoordinator") = 2
    /\ store["stakeRegistry"] \in ConstructorRefs("registryCoordinatorImplementation")
    /\ store["registryCoordinator"] \in ConstructorRefs("stakeRegistryImplementation")
    /\ outputJson["registryCoordinator"] = store["registryCoordinator"]

\* The transaction registers the strategy with the strategy manager.
Whitelists(e, strategy) ==
    /\ e.label = "addStrategiesToDepositWhitelist"
    /\ e.op = "call"
    /\ e.target = manifest["strategyManager"]
    /\ strategy \in e.refs

\* C22: the token is deployed first, then the strategy proxy, initialized
\* with that token, then the strategy is registered with the strategy
\* manager; the stake registry initializer, which takes the strategy, is
\* invoked only after the registration.
C22_PhaseBInOrder ==
    /\ \A i \in DOMAIN trace :
          trace[i].label = "erc20MockStrategy"
              => /\ trace[i].op = "newProxy"
                 /\ trace[i].hasInit
                 /\ \E j \in Earlier(i) :
                       /\ trace[j].label = "erc20Mock"
                       /\ trace[j].op = "new"
                       /\ trace[j].created # ZeroAddr
                       /\ trace[j].created \in trace[i].initRefs
    /\ \A i \in DOMAIN trace :
          trace[i].label = "addStrategiesToDepositWhitelist"
              => \E j \in Earlier(i) :
                    /\ trace[j].label = "erc20MockStrategy"
                    /\ trace[j].created # ZeroAddr
                    /\ Whitelists(trace[i], trace[j].created)
    /\ \A i \in DOMAIN trace :
          (trace[i].op = "upgradeAndCall" /\ trace[i].label = "stakeRegistry")
              => /\ store["erc20MockStrategy"] # ZeroAddr
                 /\ store["erc20MockStrategy"] \in trace[i].initRefs
                 /\ store["erc20MockStrategy"] \in whitelist
                 /\ \E j \in Earlier(i) : Whitelists(trace[j], store["erc20MockStrategy"])
    /\ \A i \in DOMAIN trace :
          (trace[i].hasInit /\ PhaseD(trace[i])
           /\ store["erc20MockStrategy"] \in trace[i].initRefs)
              => \E j \in Earlier(i) : Whitelists(trace[j], store["erc20MockStrategy"])

C22_Witness ==
    /\ \E i \in DOMAIN trace :
          /\ trace[i].op = "upgradeAndCall"
          /\ trace[i].label = "stakeRegistry"
          /\ store["erc20MockStrategy"] \in trace[i].initRefs
    /\ store["erc20MockStrategy"] \in whitelist

\* The ProxyAdmin the script deploys.
Controller == store["credibleAlignedLayerProxyAdmin"]

\* C23: every component proxy is deployed with the script's ProxyAdmin as
\* its admin, that ProxyAdmin is deployed before the first component proxy,
\* and every upgrade of a component proxy is sent to that ProxyAdmin.
C23_OneSharedController ==
    /\ \A i \in DOMAIN trace :
          PhaseA(trace[i])
              => /\ Controller # ZeroAddr
                 /\ trace[i].admin = Controller
                 /\ chain[Controller].kind = "ProxyAdmin"
                 /\ \E j \in Earlier(i) :
                       /\ trace[j].op = "new"
                       /\ trace[j].label = "credibleAlignedLayerProxyAdmin"
                       /\ trace[j].created = Controller
    /\ \A c \in Components :
          store[c] # ZeroAddr => proxy[store[c]].admin = Controller
    /\ \A i \in DOMAIN trace :
          PhaseD(trace[i])
              => /\ trace[i].admin = Controller
                 /\ proxy[trace[i].target].admin = Controller
    /\ Cardinality({i \in DOMAIN trace :
                        trace[i].label = "credibleAlignedLayerProxyAdmin"}) <= 1

C23_Witness ==
    /\ \A c \in Components : PhaseDDone(c) /\ proxy[store[c]].admin = Controller
    /\ Controller # ZeroAddr

\* The transactions that deployed the implementation of component c.
DeploymentsOf(c) ==
    {i \in DOMAIN trace : trace[i].op = "new" /\ trace[i].label = ImplementationOf(c)}

\* The proxies that point at the contract `a`.
ProxiesOn(a) == {p \in DOMAIN proxy : proxy[p].impl = a}

\* C24: in a completed run every component proxy was repointed exactly once,
\* to the implementation of its own component; that implementation was
\* deployed exactly once, before the upgrade, and no other proxy points at it.
C24_NoCrossWiring ==
    status = "done"
        => \A c \in Components :
              /\ Cardinality(UpgradesOf(c)) = 1
              /\ Cardinality(DeploymentsOf(c)) = 1
              /\ \A i \in UpgradesOf(c) :
                    /\ trace[i].impl = store[ImplementationOf(c)]
                    /\ \A j \in DeploymentsOf(c) :
                          j < i /\ trace[j].created = trace[i].impl
              /\ proxy[store[c]].impl = store[ImplementationOf(c)]
              /\ ProxiesOn(store[ImplementationOf(c)]) = {store[c]}
              /\ \A d \in Components \ {c} :
                    store[ImplementationOf(d)] # store[ImplementationOf(c)]

C24_Witness ==
    /\ status = "done"
    /\ \A c \in Components :
          ProxiesOn(store[ImplementationOf(c)]) = {store[c]}

\* C19: concurrent calls do not interfere: every call that was started
\* returns (no other call's fault ends it), and its result is the verdict of
\* the verifier on the call's own copy of the buffer and its length, the same
\* for every call with these inputs, whatever the other callers do.
C19_ConcurrentCallsDoNotInterfere ==
    /\ ~Faulted
    /\ \A c \in Callers :
          calls[c].pc = "returned"
              => /\ <<calls[c].proofBuffer, calls[c].proofLen>> \in DOMAIN ffiMemo
                 /\ calls[c].result = ffiMemo[<<calls[c].proofBuffer, calls[c].proofLen>>]
    /\ \A c, d \in Callers :
          (/\ calls[c].pc = "returned" /\ calls[d].pc = "returned"
           /\ calls[c].proofBuffer = calls[d].proofBuffer
           /\ calls[c].proofLen = calls[d].proofLen)
              => calls[c].result = calls[d].result

\* The same, for calls whose length is within the array.
C19_InRangeCallsDoNotInterfere ==
    (\A c \in Callers : calls[c].proofLen <= MAX_PROOF_SIZE)
        => C19_ConcurrentCallsDoNotInterfere

(***************************************************************************)
(* Properties of NewConfig.                                               *)
(***************************************************************************)
\* The statement was executed in the current run (it ended well or not).
Ran(stmt) == \E i \in 1..Len(steps) : steps[i] = stmt

HasPrefix(str) == Len(str) >= 2 /\ SubSeq(str, 1, 2) = <<"0", "x">>

\* The digits of a secret: what follows one leading "0x", if there is one.
Digits(str) == IF HasPrefix(str) THEN SubSeq(str, 3, Len(str)) ELSE str

\* The secret is a valid scalar encoding, with or without a leading "0x".
Decodable(str) == HexToECDSA(Digits(str)).err = ""

\* C11: for every secret that is not decodable as a valid scalar, identity
\* derivation fails with a returned key-format error: it does not panic and
\* it goes no further than the parsing statement.
C11_UndecodableSecretReturnsError ==
    (Ran("ParseEcdsaPrivateKey") /\ ~Decodable(secret))
        => /\ bootPc = "ParseEcdsaPrivateKey"
           /\ bootOutcome = "error"
           /\ result.isNil
           /\ result.err = HexToECDSA(Digits(secret)).err

\* C12: a valid scalar encoding, with or without a leading "0x", yields the
\* key and the operator address of its digits; a run given s and a run given
\* s without its prefix derive the same key and the same address; and the
\* prefix is stripped once only, so a doubled prefix is a key-format error.
C12_PrefixDoesNotChangeIdentity ==
    /\ (Ran("ParseEcdsaPrivateKey") /\ Decodable(secret))
          => /\ bootPc # "ParseEcdsaPrivateKey"
             /\ locals.ecdsaPrivateKey = HexValue(Digits(secret))
    /\ (Ran("DeriveOperatorAddress") /\ Decodable(secret))
          => locals.operatorAddr = EcdsaPrivateKeyToAddress(HexValue(Digits(secret)))
    /\ (/\ bootRun = 2
        /\ Ran("DeriveOperatorAddress")
        /\ Decodable(prevRun.secret)
        /\ secret = Digits(prevRun.secret))
          => /\ locals.ecdsaPrivateKey = prevRun.locals.ecdsaPrivateKey
             /\ locals.operatorAddr = prevRun.locals.operatorAddr
             /\ locals.operatorAddr # ZeroAddr
    /\ (Ran("ParseEcdsaPrivateKey") /\ HasPrefix(secret) /\ HasPrefix(Digits(secret)))
          => /\ bootOutcome = "error"
             /\ locals.ecdsaPrivateKeyString = Digits(secret)

\* The second run was given the digits of the first run's prefixed secret.
C12_Witness ==
    /\ bootRun = 2
    /\ Ran("DeriveOperatorAddress")
    /\ HasPrefix(prevRun.secret)
    /\ secret = Digits(prevRun.secret)
    /\ locals.operatorAddr = prevRun.locals.operatorAddr
    /\ locals.operatorAddr # ZeroAddr

\* C13: the chain identifier bound to the signer of the Config is the one
\* the chain-id query of the same run returned, and the signer holds the
\* Config's key.
C13_SignerBoundToObservedChain ==
    (Ran("AssembleConfig") \/ bootOutcome = "returned")
        => /\ "ChainID" \in DOMAIN bootEnv
           /\ config.Signer.chainId = bootEnv["ChainID"]
           /\ config.Signer.chainId \in ChainIds
           /\ config.Signer.key = config.EcdsaPrivateKey

C13_Witness ==
    /\ Ran("AssembleConfig")
    /\ bootEnv["ChainID"] = 31337
    /\ config.Signer.chainId = 31337

RequiredAddrs(c) == {c.BlsOperatorStateRetrieverAddr, c.AlignedLayerServiceManagerAddr}

\* C14: validation rejects the Config when a required address is the zero
\* address and accepts it otherwise: NewConfig returns the Config exactly
\* when both required addresses are non-zero, and panics otherwise.
C14_ValidateRejectsZeroAddress ==
    Ran("ValidateAndReturn")
        => /\ bootOutcome = "returned" <=> ZeroAddr \notin RequiredAddrs(config)
           /\ bootOutcome = "panic" <=> ZeroAddr \in RequiredAddrs(config)
           /\ bootOutcome = "returned" => (~result.isNil /\ result.config = config)
           /\ bootOutcome = "panic" => result = NoResult

C14_Witness ==
    /\ Ran("ValidateAndReturn")
    /\ ZeroAddr \notin RequiredAddrs(config)
    /\ bootOutcome = "returned"


ManifestFiles == {"alignedLayerDeploymentFile", "sharedAvsContractsDeploymentFile"}

LoaderOf(file) ==
    IF file = "alignedLayerDeploymentFile" THEN "LoadAlignedLayerDeployment"
    ELSE "LoadSharedAvsContracts"

\* os.Stat found no file at the manifest's path.
Missing(file) == file \in DOMAIN bootEnv /\ ~bootEnv[file][1]

ChainQuestions == {"NewClient(EthRpcUrl)", "NewClient(EthWsUrl)", "ChainID"}

\* C15: when a deployment manifest file does not exist, NewConfig panics at
\* the statement that loads it, and neither that run nor any other run in
\* this environment creates a chain client or queries the chain id.
C15_MissingManifestStopsBeforeChain ==
    \A file \in ManifestFiles :
        Missing(file)
            => /\ Ran(LoaderOf(file)) => (bootPc = LoaderOf(file) /\ bootOutcome = "panic")
               /\ ~Ran("NewEthRpcClient") /\ ~Ran("NewEthWsClient") /\ ~Ran("QueryChainId")
               /\ ~locals.ethRpcClient /\ ~locals.ethWsClient /\ locals.chainId = 0
               /\ ChainQuestions \cap DOMAIN bootEnv = {}

C15_Witness ==
    /\ Missing("sharedAvsContractsDeploymentFile")
    /\ ~Missing("alignedLayerDeploymentFile")
    /\ Ran("LoadSharedAvsContracts")
    /\ bootOutcome = "panic"

\* The statements of NewConfig in program order.
StepOrder ==
    <<"ReadConfigFile", "LoadAlignedLayerDeployment", "LoadSharedAvsContracts",
      "NewZapLogger", "NewEthRpcClient", "NewEthWsClient", "ParseEcdsaPrivateKey",
      "DeriveOperatorAddress", "QueryChainId", "NewPrivateKeySigner", "AssembleConfig",
      "ValidateAndReturn">>

\* The statement, once executed, met a failure.
FailsAt(stmt) ==
    CASE stmt = "LoadAlignedLayerDeployment" -> Missing("alignedLayerDeploymentFile")
      [] stmt = "LoadSharedAvsContracts" -> Missing("sharedAvsContractsDeploymentFile")
      [] stmt = "NewZapLogger" -> ~bootEnv["NewZapLogger"]
      [] stmt = "NewEthRpcClient" -> ~bootEnv["NewClient(EthRpcUrl)"]
      [] stmt = "NewEthWsClient" -> ~bootEnv["NewClient(EthWsUrl)"]
      [] stmt = "ParseEcdsaPrivateKey" -> ~Decodable(secret)
      [] stmt = "QueryChainId" -> bootEnv["ChainID"] = 0
      [] stmt = "NewPrivateKeySigner" -> ~bootEnv["NewPrivateKeySigner"]
      [] stmt = "ValidateAndReturn" -> ZeroAddr \in RequiredAddrs(config)
      [] OTHER -> FALSE

C17_ManifestAddressDelivered ==
    (/\ Ran("ValidateAndReturn")
     /\ HexToAddress(bootEnv["alignedLayerDeploymentFile"][2]) # ZeroAddr
     /\ HexToAddress(bootEnv["sharedAvsContractsDeploymentFile"][2]) # ZeroAddr)
        => /\ bootOutcome = "returned"
           /\ config.AlignedLayerServiceManagerAddr =
                 HexToAddress(bootEnv["alignedLayerDeploymentFile"][2])

\* What parsing tells about the secret: nothing when it is a valid scalar
\* encoding, else the error of the parser, or the length of a secret that is
\* too short to be sliced.
ParseVerdict(str) ==
    IF Len(str) < 2 THEN "length " \o ToString(Len(str))
    ELSE HexToECDSA(Digits(str)).err

BothRunsEnded == bootRun = 2 /\ bootOutcome # "running"

ManifestsExist ==
    \A file \in ManifestFiles : file \in DOMAIN bootEnv /\ bootEnv[file][1]

\* A required address is empty or zero in its manifest file.
RequiredAddressMissing ==
    \E file \in ManifestFiles : HexToAddress(bootEnv[file][2]) = ZeroAddr

\* No statement before the validation met a failure.
NoEarlierFailure ==
    \A i \in 1..Len(steps) : steps[i] # "ValidateAndReturn" => ~FailsAt(steps[i])

\* C25: validation is the last statement: it runs only after both clients
\* were created, the secret parsed, the chain id queried and the signer
\* built; when both manifest files exist, a required address in them is
\* empty or zero and nothing else fails, NewConfig ends there, with the
\* panic of validate; and the Config's SlasherAddr is the zero address.
C25_ValidationIsLast ==
    /\ Ran("ValidateAndReturn")
          => /\ steps = StepOrder
             /\ locals.ethRpcClient /\ locals.ethWsClient
             /\ Decodable(secret)
             /\ locals.ecdsaPrivateKey = HexValue(Digits(secret))
             /\ locals.chainId \in ChainIds
             /\ locals.privateKeySigner =
                   [key |-> locals.ecdsaPrivateKey, chainId |-> locals.chainId]
             /\ config.Signer = locals.privateKeySigner
    /\ (/\ bootOutcome # "running"
        /\ ManifestsExist
        /\ RequiredAddressMissing
        /\ NoEarlierFailure)
          => /\ bootPc = "ValidateAndReturn"
             /\ bootOutcome = "panic"
             /\ result = NoResult
             /\ output[Len(output)].sink = "panic"
             /\ output[Len(output)].msg = validate(config)
    /\ (Ran("AssembleConfig") \/ bootOutcome = "returned")
          => config.SlasherAddr = ZeroAddr
    /\ ~result.isNil => result.config.SlasherAddr = ZeroAddr

C25_Witness ==
    /\ ManifestsExist
    /\ bootEnv["sharedAvsContractsDeploymentFile"][2] = ""
    /\ Ran("ValidateAndReturn")
    /\ bootOutcome = "panic"
    /\ locals.ethRpcClient /\ locals.ethWsClient
    /\ locals.chainId = 31337
    /\ config.SlasherAddr = ZeroAddr

====
